---- MODULE Spec2Model ----
(***************************************************************************)
(* Model of src/searchpolicy.py: the tenacity-wrapped single page fetch    *)
(* call_search_all_iam_policies, the pagination loop                       *)
(* fetch_all_iam_policies and the __main__ block.                          *)
(*                                                                         *)
(* Time is counted in ticks of 1/JitterSteps second, so that the jitter    *)
(* random.uniform(0, 1) is a choice among 0..JitterSteps ticks.            *)
(***************************************************************************)
EXTENDS Integers, Sequences, FiniteSets, TLC

\* ---------------------------------------------------------------- bounds
MaxPages == 2          \* the transport's page chains have at most this many pages
JitterSteps == 2       \* resolution of the jitter draw
MaxInvocations == 2    \* calls of fetch_all_iam_policies by an importing caller

\* ------------------------------------------------------- program constants
MaxAttempts == 5       \* stop_after_attempt(5)
WaitInitial == 1       \* wait_exponential_jitter(): initial (seconds)
WaitExpBase == 2       \* wait_exponential_jitter(): exp_base
WaitJitter == 1        \* wait_exponential_jitter(): jitter (seconds)
MAX_WAIT == 2147483647 \* wait_exponential_jitter(): max = sys.maxsize / 2, saturated
RateLimitStatus == 429

\* ------------------------------------------------------------ value sets
None == "<None>"                       \* Python's None, as a page token
Tokens == {"X", "Y"}                   \* opaque non-empty page tokens
TokenValues == Tokens \cup {None, ""}  \* what response.get('nextPageToken') can be
MainOrgId == "123456789012"
OrgIds == {MainOrgId, "42"}

\* the 'policies' lists a page can carry: empty, one record, two records in
\* either order
PolicyLists == {<<>>, <<"a">>, <<"a", "b">>, <<"b", "a">>}

\* A response dictionary: the 'policies' key may be missing, and so may
\* 'nextPageToken' (a missing token and an explicit None read the same).
Responses ==
    {[has_policies |-> TRUE, policies |-> p, nextPageToken |-> t] :
        p \in PolicyLists, t \in TokenValues}
    \cup {[has_policies |-> FALSE, policies |-> <<>>, nextPageToken |-> t] : t \in TokenValues}

NoResponse == [has_policies |-> FALSE, policies |-> <<>>, nextPageToken |-> None]

\* Exceptions: HttpError carries resp.status; OSError stands for any failure
\* of the transport that is not an HttpError; RetryError is tenacity's.
HttpError(status) == [cls |-> "HttpError", status |-> status, last |-> "", last_status |-> 0]
OtherError == [cls |-> "OSError", status |-> 0, last |-> "", last_status |-> 0]
RetryError(e) == [cls |-> "RetryError", status |-> 0, last |-> e.cls, last_status |-> e.status]
NoExc == [cls |-> "", status |-> 0, last |-> "", last_status |-> 0]
TransportErrors == {HttpError(RateLimitStatus), HttpError(403), OtherError}

NoRequest == [parent |-> <<>>, pageToken |-> None]
NoReturn == [has |-> FALSE, value |-> <<>>]
NoPrior == "none"

VARIABLES
    mode,             \* "script": run as __main__; "imported": called by an importer
    invocations,      \* calls of fetch_all_iam_policies made so far
    exited,           \* the process has ended
    exit_code,        \* its exit code, once exited
    pc,               \* fetch_all_iam_policies: "idle", "loop", "call", "returned", "raised"
    org_id,           \* argument of the current invocation
    all_policies,     \* line 60
    next_page_token,  \* line 61
    response,         \* line 65
    returned,         \* value returned by the current invocation, if any
    raised,           \* exception leaving the current invocation / page fetch
    rstate,           \* retry loop of one page fetch
    attempt_number,   \* RetryCallState.attempt_number
    outcomes,         \* exceptions of the failed attempts of this page fetch
    delay,            \* sleep computed by wait_exponential_jitter, in ticks
    sleptBefore,      \* attempts of this page fetch that a sleep preceded
    request,          \* the request last handed to the transport
    page_requests,    \* transport requests of this page fetch
    retried,          \* the current invocation has repeated a request
    any_failed,       \* an attempt of the current invocation has failed
    calls,            \* page_token of each call_search_all_iam_policies call
    pages,            \* responses successfully fetched by the current invocation
    prior             \* how the previous invocation ended, if there was one

vars == <<mode, invocations, exited, exit_code, pc, org_id, all_policies,
          next_page_token, response, returned, raised, rstate, attempt_number,
          outcomes, delay, sleptBefore, request, page_requests, retried,
          any_failed, calls, pages, prior>>

mainVars == <<mode, exited, exit_code>>
retryVars == <<rstate, attempt_number, outcomes, delay, sleptBefore, page_requests>>
histVars == <<retried, any_failed, calls, pages>>

Min(a, b) == IF a < b THEN a ELSE b
Max(a, b) == IF a > b THEN a ELSE b

RECURSIVE Pow(_, _)
Pow(b, e) == IF e = 0 THEN 1 ELSE b * Pow(b, e - 1)

\* ------------------------------------------------------------ retry policy
\* a retry condition left at its default: every exception is retried
retry_if_any_exception(e) == TRUE

\* retry=retry_if_exception_type(HttpError)
retry_if_exception_type(e) == e.cls = "HttpError"

\* a stop condition that lets one attempt too many through
stop_after_attempt_late(n) == n > MaxAttempts

\* stop=stop_after_attempt(5)
stop_after_attempt(n) == n >= MaxAttempts

\* a backoff whose exponent is the attempt number itself
wait_exponential_jitter_next(n, j) ==
    Max(0, Min(WaitInitial * Pow(WaitExpBase, n) * JitterSteps + WaitJitter * j,
               MAX_WAIT))

\* wait=wait_exponential_jitter(): min(initial * exp_base^(n-1) + jitter, max),
\* in ticks; j is the jitter draw, 0..JitterSteps ticks of WaitJitter seconds.
wait_exponential_jitter(n, j) ==
    Max(0, Min(WaitInitial * Pow(WaitExpBase, n - 1) * JitterSteps + WaitJitter * j,
               MAX_WAIT))

\* what leaves the wrapper when the stop condition holds (reraise is False)
retry_error(e) == RetryError(e)

\* the request built at lines 32-35
BuildRequest(org, token) == [parent |-> <<"organizations/", org>>, pageToken |-> token]

\* response.get('policies', [])
GetPolicies(r) == IF r.has_policies THEN r.policies ELSE <<>>

\* an accumulator that puts the new page in front
ExtendPrepend(acc, r) == GetPolicies(r) \o acc

\* an accumulator that skips the records it already holds
ExtendDedup(acc, r) ==
    acc \o SelectSeq(GetPolicies(r), LAMBDA x : \A i \in 1..Len(acc) : acc[i] # x)

\* line 68: all_policies.extend(response.get('policies', []))
Extend(acc, r) == acc \o GetPolicies(r)

\* line 42: the rate-limit classification
IsRateLimit(e) == e.cls = "HttpError" /\ e.status = RateLimitStatus

\* a test that takes only None for the end of the chain
FalsyNoneOnly(t) == t = None

\* `not next_page_token`
Falsy(t) == t = None \/ t = ""

Init ==
    /\ mode \in {"script", "imported"}
    /\ invocations = 0
    /\ exited = FALSE
    /\ exit_code = 0
    /\ pc = "idle"
    /\ org_id = MainOrgId
    /\ all_policies = <<>>
    /\ next_page_token = None
    /\ response = NoResponse
    /\ returned = NoReturn
    /\ raised = NoExc
    /\ rstate = "Idle"
    /\ attempt_number = 0
    /\ outcomes = <<>>
    /\ delay = 0
    /\ sleptBefore = {}
    /\ request = NoRequest
    /\ page_requests = 0
    /\ retried = FALSE
    /\ any_failed = FALSE
    /\ calls = <<>>
    /\ pages = <<>>
    /\ prior = NoPrior

\* what an invocation leaves behind when the next one starts
EndOf(at, acc) ==
    IF at = "idle" THEN NoPrior
    ELSE IF at = "raised" /\ acc # <<>> THEN "raised_holding_items"
    ELSE "ended"

\* an accumulator and a token that live outside the function and are not
\* set up again by a new invocation
InvokeShared(org) ==
    /\ ~exited
    /\ pc \in {"idle", "returned", "raised"}
    /\ IF mode = "script" THEN invocations = 0 /\ org = MainOrgId
                          ELSE invocations < MaxInvocations
    /\ invocations' = invocations + 1
    /\ org_id' = org
    /\ response' = NoResponse
    /\ returned' = NoReturn
    /\ raised' = NoExc
    /\ pc' = "loop"
    /\ rstate' = "Idle"
    /\ attempt_number' = 0
    /\ outcomes' = <<>>
    /\ delay' = 0
    /\ sleptBefore' = {}
    /\ request' = NoRequest
    /\ page_requests' = 0
    /\ retried' = FALSE
    /\ any_failed' = FALSE
    /\ calls' = <<>>
    /\ pages' = <<>>
    /\ prior' = EndOf(pc, all_policies)
    /\ UNCHANGED <<mainVars, all_policies, next_page_token>>

\* fetch_all_iam_policies(service, org): lines 60-61.  The script calls it once
\* with its own organization id (line 85); an importer may call it again.
Invoke(org) ==
    /\ ~exited
    /\ pc \in {"idle", "returned", "raised"}
    /\ IF mode = "script" THEN invocations = 0 /\ org = MainOrgId
                          ELSE invocations < MaxInvocations
    /\ invocations' = invocations + 1
    /\ org_id' = org
    /\ all_policies' = <<>>
    /\ next_page_token' = None
    /\ response' = NoResponse
    /\ returned' = NoReturn
    /\ raised' = NoExc
    /\ pc' = "loop"
    /\ rstate' = "Idle"
    /\ attempt_number' = 0
    /\ outcomes' = <<>>
    /\ delay' = 0
    /\ sleptBefore' = {}
    /\ request' = NoRequest
    /\ page_requests' = 0
    /\ retried' = FALSE
    /\ any_failed' = FALSE
    /\ calls' = <<>>
    /\ pages' = <<>>
    /\ prior' = EndOf(pc, all_policies)
    /\ UNCHANGED mainVars

\* a wrapper that sleeps before the first attempt as well
CallSearchWaitFirst ==
    /\ pc = "loop"
    /\ pc' = "call"
    /\ rstate' = "Waiting"
    /\ attempt_number' = 1
    /\ outcomes' = <<>>
    /\ sleptBefore' = {}
    /\ delay' = wait_exponential_jitter(1, 0)
    /\ page_requests' = 0
    /\ calls' = Append(calls, next_page_token)
    /\ UNCHANGED <<mainVars, invocations, org_id, all_policies, next_page_token,
                   response, returned, raised, request, retried, any_failed, pages>>
    /\ UNCHANGED prior

\* an attempt counter shared by the page fetches of an invocation: a page
\* fetched after a failure starts one attempt down
CallSearchSharedBudget ==
    /\ pc = "loop"
    /\ pc' = "call"
    /\ rstate' = "Attempting"
    /\ attempt_number' = IF any_failed THEN 2 ELSE 1
    /\ outcomes' = <<>>
    /\ sleptBefore' = {}
    /\ delay' = 0
    /\ request' = BuildRequest(org_id, next_page_token)
    /\ page_requests' = 1
    /\ calls' = Append(calls, next_page_token)
    /\ UNCHANGED <<mainVars, invocations, org_id, all_policies, next_page_token,
                   response, returned, raised, retried, any_failed, pages>>
    /\ UNCHANGED prior

\* line 65: the wrapper starts a retry lifecycle and runs attempt 1, which
\* builds the request (lines 32-35) and hands it to the transport (line 36).
CallSearch ==
    /\ pc = "loop"
    /\ pc' = "call"
    /\ rstate' = "Attempting"
    /\ attempt_number' = 1
    /\ outcomes' = <<>>
    /\ sleptBefore' = {}
    /\ delay' = 0
    /\ request' = BuildRequest(org_id, next_page_token)
    /\ page_requests' = 1
    /\ calls' = Append(calls, next_page_token)
    /\ UNCHANGED <<mainVars, invocations, org_id, all_policies, next_page_token,
                   response, returned, raised, retried, any_failed, pages>>
    /\ UNCHANGED prior

\* request.execute() returns r: lines 36-39, then the wrapper returns it.
\* A chain of the transport has at most MaxPages pages.
AttemptSucceeds(r) ==
    /\ pc = "call"
    /\ rstate = "Attempting"
    /\ Len(pages) + 1 >= MaxPages => Falsy(r.nextPageToken)
    /\ rstate' = "Succeeded"
    /\ response' = r
    /\ pages' = Append(pages, r)
    /\ UNCHANGED <<mainVars, invocations, pc, org_id, all_policies, next_page_token,
                   returned, raised, attempt_number, outcomes, delay, sleptBefore,
                   request, page_requests, retried, any_failed, calls>>
    /\ UNCHANGED prior

\* a wrapper configured without a wait: a retryable failure is followed by the
\* next attempt at once
AttemptFailsNoWait(e, j) ==
    /\ pc = "call"
    /\ rstate = "Attempting"
    /\ outcomes' = Append(outcomes, e)
    /\ any_failed' = TRUE
    /\ IF ~retry_if_exception_type(e)
       THEN /\ rstate' = "Raised"
            /\ raised' = e
            /\ UNCHANGED <<attempt_number, request, page_requests, retried>>
       ELSE IF stop_after_attempt(attempt_number)
       THEN /\ rstate' = "Exhausted"
            /\ raised' = retry_error(e)
            /\ UNCHANGED <<attempt_number, request, page_requests, retried>>
       ELSE /\ rstate' = "Attempting"
            /\ attempt_number' = attempt_number + 1
            /\ request' = BuildRequest(org_id, next_page_token)
            /\ page_requests' = page_requests + 1
            /\ retried' = TRUE
            /\ UNCHANGED raised
    /\ UNCHANGED <<mainVars, invocations, pc, org_id, all_policies, next_page_token,
                   response, returned, delay, sleptBefore, calls, pages>>
    /\ UNCHANGED prior

\* request.execute() raises e: lines 41-47 re-raise an HttpError of any
\* status, anything else passes through; then the wrapper decides.
AttemptFails(e, j) ==
    /\ pc = "call"
    /\ rstate = "Attempting"
    /\ outcomes' = Append(outcomes, e)
    /\ any_failed' = TRUE
    /\ IF ~retry_if_exception_type(e)
       THEN /\ rstate' = "Raised"
            /\ raised' = e
            /\ UNCHANGED <<attempt_number, delay>>
       ELSE IF stop_after_attempt(attempt_number)
       THEN /\ rstate' = "Exhausted"
            /\ raised' = retry_error(e)
            /\ UNCHANGED <<attempt_number, delay>>
       ELSE /\ rstate' = "Waiting"
            /\ delay' = wait_exponential_jitter(attempt_number, j)
            /\ attempt_number' = attempt_number + 1
            /\ UNCHANGED raised
    /\ UNCHANGED <<mainVars, invocations, pc, org_id, all_policies, next_page_token,
                   response, returned, sleptBefore, request, page_requests, retried,
                   calls, pages>>
    /\ UNCHANGED prior

\* a retry that sends the request again without its page token
WakeDropsToken ==
    /\ pc = "call"
    /\ rstate = "Waiting"
    /\ rstate' = "Attempting"
    /\ sleptBefore' = sleptBefore \cup {attempt_number}
    /\ request' = BuildRequest(org_id, None)
    /\ page_requests' = page_requests + 1
    /\ retried' = TRUE
    /\ delay' = 0
    /\ UNCHANGED <<mainVars, invocations, pc, org_id, all_policies, next_page_token,
                   response, returned, raised, attempt_number, outcomes,
                   any_failed, calls, pages>>
    /\ UNCHANGED prior

\* the sleep ends and the wrapper calls the function again with the same
\* arguments: lines 32-36.
Wake ==
    /\ pc = "call"
    /\ rstate = "Waiting"
    /\ rstate' = "Attempting"
    /\ sleptBefore' = sleptBefore \cup {attempt_number}
    /\ request' = BuildRequest(org_id, next_page_token)
    /\ page_requests' = page_requests + 1
    /\ retried' = TRUE
    /\ delay' = 0
    /\ UNCHANGED <<mainVars, invocations, pc, org_id, all_policies, next_page_token,
                   response, returned, raised, attempt_number, outcomes,
                   any_failed, calls, pages>>
    /\ UNCHANGED prior

\* the wrapper has returned or raised: its RetryCallState is gone
EndLifecycle ==
    /\ rstate' = "Idle"
    /\ attempt_number' = 0
    /\ outcomes' = <<>>
    /\ delay' = 0
    /\ sleptBefore' = {}
    /\ page_requests' = 0

\* a loop body that decides on the new token but keeps sending the old one
ConsumeStaleToken ==
    /\ pc = "call"
    /\ rstate = "Succeeded"
    /\ all_policies' = Extend(all_policies, response)
    /\ IF Falsy(response.nextPageToken)
       THEN /\ pc' = "returned"
            /\ returned' = [has |-> TRUE, value |-> all_policies']
       ELSE /\ pc' = "loop"
            /\ UNCHANGED returned
    /\ EndLifecycle
    /\ UNCHANGED <<mainVars, invocations, org_id, next_page_token, response, raised,
                   request, histVars>>
    /\ UNCHANGED prior

\* a loop body that indexes response['policies'] and so fails on a response
\* without the key
ConsumeStrict ==
    /\ pc = "call"
    /\ rstate = "Succeeded"
    /\ IF ~response.has_policies
       THEN /\ pc' = "raised"
            /\ raised' = [cls |-> "KeyError", status |-> 0, last |-> "", last_status |-> 0]
            /\ UNCHANGED <<all_policies, next_page_token, returned>>
       ELSE /\ all_policies' = Extend(all_policies, response)
            /\ next_page_token' = response.nextPageToken
            /\ UNCHANGED raised
            /\ IF Falsy(response.nextPageToken)
               THEN /\ pc' = "returned"
                    /\ returned' = [has |-> TRUE, value |-> all_policies']
               ELSE /\ pc' = "loop"
                    /\ UNCHANGED returned
    /\ EndLifecycle
    /\ UNCHANGED <<mainVars, invocations, org_id, response, request, histVars>>
    /\ UNCHANGED prior

\* lines 68-75
Consume ==
    /\ pc = "call"
    /\ rstate = "Succeeded"
    /\ all_policies' = Extend(all_policies, response)
    /\ next_page_token' = response.nextPageToken
    /\ IF Falsy(response.nextPageToken)
       THEN /\ pc' = "returned"
            /\ returned' = [has |-> TRUE, value |-> all_policies']
       ELSE /\ pc' = "loop"
            /\ UNCHANGED returned
    /\ EndLifecycle
    /\ UNCHANGED <<mainVars, invocations, org_id, response, raised, request, histVars>>
    /\ UNCHANGED prior

\* a loop that swallows the failure and returns what it has so far
PropagateSwallow ==
    /\ pc = "call"
    /\ rstate \in {"Raised", "Exhausted"}
    /\ pc' = "returned"
    /\ returned' = [has |-> TRUE, value |-> all_policies]
    /\ raised' = NoExc
    /\ EndLifecycle
    /\ UNCHANGED <<mainVars, invocations, org_id, all_policies, next_page_token,
                   response, request, histVars>>
    /\ UNCHANGED prior

\* fetch_all_iam_policies has no handler: the exception leaves it.
Propagate ==
    /\ pc = "call"
    /\ rstate \in {"Raised", "Exhausted"}
    /\ pc' = "raised"
    /\ EndLifecycle
    /\ UNCHANGED <<mainVars, invocations, org_id, all_policies, next_page_token,
                   response, returned, raised, request, histVars>>
    /\ UNCHANGED prior

\* line 87: `except Exception` catches HttpError, RetryError and the
\* transport's other failures alike
CaughtAsException(e) == e.cls \in {"HttpError", "RetryError", "OSError"}

\* lines 84-88: log the total, or catch the exception and log it; the script
\* then runs off its end.
MainExit ==
    /\ mode = "script"
    /\ ~exited
    /\ pc \in {"returned", "raised"}
    /\ exited' = TRUE
    /\ exit_code' = IF pc = "raised" /\ ~CaughtAsException(raised) THEN 1 ELSE 0
    /\ UNCHANGED <<mode, invocations, pc, org_id, all_policies, next_page_token,
                   response, returned, raised, retryVars, request, histVars>>
    /\ UNCHANGED prior

Next ==
    \/ \E org \in OrgIds : Invoke(org)
    \/ CallSearch
    \/ \E r \in Responses : AttemptSucceeds(r)
    \/ \E e \in TransportErrors, j \in 0..JitterSteps : AttemptFails(e, j)
    \/ Wake
    \/ Consume
    \/ Propagate
    \/ MainExit

Spec == Init /\ [][Next]_vars

\* The program is one thread: a step that can be taken is taken.  The
\* transport answers every request, with a response or with a failure.
TransportAnswers ==
    \/ \E r \in Responses : AttemptSucceeds(r)
    \/ \E e \in TransportErrors, j \in 0..JitterSteps : AttemptFails(e, j)

FairSpec ==
    /\ Spec
    /\ WF_vars(CallSearch)
    /\ WF_vars(TransportAnswers)
    /\ WF_vars(Wake)
    /\ WF_vars(Consume)
    /\ WF_vars(Propagate)

\* ------------------------------------------------------------------ claims
AllRateLimit(es) == \A i \in 1..Len(es) : IsRateLimit(es[i])

\* C1: a page fetch whose first attempt fails with a Permanent error (any
\* failure other than HTTP 429) makes exactly 1 attempt, waits for no backoff
\* and lets that error reach the caller at once.
C1_PermanentFailsAtOnce ==
    (rstate # "Idle" /\ Len(outcomes) >= 1 /\ ~IsRateLimit(outcomes[1]))
        => /\ attempt_number = 1
           /\ page_requests = 1
           /\ sleptBefore = {}
           /\ rstate = "Raised"
           /\ raised = outcomes[1]

\* C2: when all 5 attempts of a page fetch fail with the rate-limit error, the
\* exception that leaves call_search_all_iam_policies is that HttpError itself,
\* not a wrapper.
C2_ExhaustedSurfacesOriginal ==
    (rstate = "Exhausted" /\ AllRateLimit(outcomes))
        => raised = outcomes[Len(outcomes)]

\* C3: a page fetch makes at least 1 and at most 5 attempts against the
\* transport; when every attempt fails with the rate-limit error it ends after
\* exactly 5 attempts.
C3_AttemptsBounded ==
    /\ rstate # "Idle" =>
          /\ attempt_number \in 1..5
          /\ page_requests \in 1..5
          /\ Len(outcomes) <= page_requests
    /\ (rstate \in {"Raised", "Exhausted"} /\ AllRateLimit(outcomes)) =>
          /\ Len(outcomes) = 5
          /\ page_requests = 5
          /\ attempt_number = 5

C3_Witness ==
    /\ rstate = "Exhausted"
    /\ AllRateLimit(outcomes)
    /\ page_requests = 5

RECURSIVE ConcatItems(_)
ConcatItems(ps) ==
    IF ps = <<>> THEN <<>>
    ELSE (IF Head(ps).has_policies THEN Head(ps).policies ELSE <<>>) \o ConcatItems(Tail(ps))

\* C4: when no attempt fails and the transport serves an N-page chain (pages
\* 1..N-1 with a non-empty nextPageToken, page N without), fetch_all_iam_policies
\* makes exactly N fetches, the first without a token and each later one with
\* the previous response's token, and returns the pages' items concatenated in
\* order.
C4_Pagination ==
    (pc = "returned" /\ ~any_failed) =>
        LET N == Len(pages) IN
        /\ N >= 1
        /\ \A k \in 1..(N - 1) : pages[k].nextPageToken \in Tokens
        /\ pages[N].nextPageToken \notin Tokens
        /\ Len(calls) = N
        /\ ~retried
        /\ calls[1] = None
        /\ \A k \in 2..N : calls[k] = pages[k - 1].nextPageToken
        /\ request = [parent |-> <<"organizations/", org_id>>, pageToken |-> calls[N]]
        /\ returned = [has |-> TRUE, value |-> ConcatItems(pages)]

C4_Witness ==
    /\ pc = "returned"
    /\ ~any_failed
    /\ Len(pages) = 2
    /\ calls = <<None, "X">>
    /\ returned.value = <<"a", "b", "a">>

C5_Step ==
    /\ (rstate \in {"Raised", "Exhausted"}) =>
          (/\ pc' = "raised"
           /\ raised' = raised
           /\ page_requests' = 0
           /\ request' = request
           /\ calls' = calls)
    /\ (pc = "raised" /\ invocations' = invocations) =>
          (/\ pc' = "raised"
           /\ raised' = raised
           /\ returned' = NoReturn
           /\ page_requests' = 0
           /\ request' = request
           /\ calls' = calls)

\* C5: when a page fetch ends in a terminal failure, the next step of
\* fetch_all_iam_policies is to let the exception out; from then on the
\* invocation requests no page and returns nothing, the accumulated items
\* included.
C5_AbortOnFailure ==
    /\ [](pc = "raised" => (raised # NoExc /\ returned = NoReturn))
    /\ [][C5_Step]_vars

C5_Witness ==
    /\ pc = "raised"
    /\ Len(pages) = 1
    /\ all_policies = <<"a", "b">>
    /\ returned = NoReturn

\* C6 as claimed: the delay after failed attempt n lies between 2^n and 2^n + 1
\* seconds while that is below the cap, and never exceeds 60 seconds.
C6_BackoffAsClaimed ==
    rstate = "Waiting" =>
        LET n == Len(outcomes) IN
        /\ delay <= 60 * JitterSteps
        /\ (Pow(2, n) + 1 <= 60) =>
              (/\ Pow(2, n) * JitterSteps <= delay
               /\ delay <= (Pow(2, n) + 1) * JitterSteps)

\* C6: the delay after failed attempt n lies between 2^(n-1) and 2^(n-1) + 1
\* seconds while that is below the cap, and never exceeds 60 seconds.
C6_Backoff ==
    rstate = "Waiting" =>
        LET n == Len(outcomes) IN
        /\ n >= 1
        /\ delay <= 60 * JitterSteps
        /\ (Pow(2, n - 1) + 1 <= 60) =>
              (/\ Pow(2, n - 1) * JitterSteps <= delay
               /\ delay <= (Pow(2, n - 1) + 1) * JitterSteps)

C6_Witness ==
    /\ rstate = "Waiting"
    /\ Len(outcomes) = 4
    /\ delay = 9 * JitterSteps

\* C7: when attempts 1 to 4 fail with the rate-limit error and attempt 5
\* succeeds, the page fetch returns the response of attempt 5 and has slept
\* before attempts 2, 3, 4 and 5 and before no other.
C7_RetryThenSuccess ==
    (rstate = "Succeeded" /\ Len(outcomes) = 4 /\ AllRateLimit(outcomes)) =>
        /\ attempt_number = 5
        /\ page_requests = 5
        /\ sleptBefore = {2, 3, 4, 5}
        /\ raised = NoExc
        /\ response = pages[Len(pages)]

C7_Witness ==
    /\ rstate = "Succeeded"
    /\ Len(outcomes) = 4
    /\ AllRateLimit(outcomes)
    /\ response.policies = <<"a", "b">>
    /\ sleptBefore = {2, 3, 4, 5}

\* C8: run as a script, the process exits with code 0 if
\* fetch_all_iam_policies succeeds and with a non-zero code if it fails.
C8_ExitCode ==
    exited => ((exit_code = 0) <=> (pc = "returned"))

C9_Last(es) == es[Len(es)]

C9_Step ==
    /\ (rstate' = "Waiting" /\ rstate # "Waiting") =>
          (/\ rstate = "Attempting"
           /\ IsRateLimit(C9_Last(outcomes'))
           /\ Len(outcomes') < 5)
    /\ (rstate = "Waiting") => (rstate' = "Attempting")
    /\ (rstate \in {"Succeeded", "Raised", "Exhausted"}) => (rstate' = "Idle")
    /\ (rstate' = "Exhausted" /\ rstate # "Exhausted") =>
          (/\ rstate = "Attempting"
           /\ IsRateLimit(C9_Last(outcomes'))
           /\ Len(outcomes') = 5)
    /\ (rstate' = "Raised" /\ rstate # "Raised") =>
          (/\ rstate = "Attempting"
           /\ ~IsRateLimit(C9_Last(outcomes')))

\* C9: in the retry lifecycle of one page fetch, Waiting is entered only from
\* Attempting on a rate-limit failure with attempts remaining and is followed
\* by Attempting; Succeeded and the two failed states (FailedPermanent: the
\* error leaves the wrapper as it is; FailedTransientExhausted: the wrapper
\* gives up) end the lifecycle; FailedTransientExhausted is entered only on a
\* rate-limit failure of attempt 5, FailedPermanent only on a Permanent error.
C9_StateMachine == [][C9_Step]_vars

C10_Step ==
    (pc = "call" /\ rstate = "Succeeded") =>
        /\ (pc' = "loop") <=> (response.nextPageToken \notin {None, ""})
        /\ (pc' # "loop") =>
              (/\ pc' = "returned"
               /\ returned' = [has |-> TRUE, value |-> all_policies'])
        /\ next_page_token' = response.nextPageToken

\* C10: after a successful response fetch_all_iam_policies requests another
\* page if and only if the response's nextPageToken is neither None nor empty;
\* otherwise it returns the accumulator.  Nothing but the token decides: at the
\* top of the loop the next fetch can always be issued.  On the transport's
\* finite chains every invocation ends, and it ends by returning when no page
\* fetch fails for good.
C10_ContinueIffToken ==
    /\ [][C10_Step]_vars
    /\ [](pc = "loop" => ENABLED CallSearch)
    /\ (pc = "loop") ~> (pc \in {"returned", "raised"})
    /\ [](pc = "raised" => raised # NoExc)

C10_Witness ==
    /\ pc = "returned"
    /\ Len(pages) = 2
    /\ pages[1].nextPageToken = "Y"
    /\ pages[2].nextPageToken = ""

\* the pages whose response the loop body (line 68) has taken in
C11_Taken ==
    IF rstate = "Succeeded" THEN SubSeq(pages, 1, Len(pages) - 1) ELSE pages

\* C11: in every reachable state the accumulator is the concatenation, in
\* fetch order, of the items of exactly the pages fetched so far by this
\* invocation (a response just returned counts once line 68 has run), with
\* nothing removed, deduplicated or reordered.
C11_Accumulator ==
    all_policies = ConcatItems(C11_Taken)

C11_Witness ==
    /\ Len(pages) = 2
    /\ rstate = "Idle"
    /\ pages[1].policies = <<"a", "b">>
    /\ all_policies = <<"a", "b", "b", "a">>

\* C12: no sleep precedes attempt 1; every sleep lies between a failed attempt
\* k and attempt k+1, so the sleeps are those before attempts 2..k and number
\* one less than the attempts; no sleep is pending after the final attempt.
C12_WaitsBetweenAttempts ==
    /\ (rstate \in {"Attempting", "Succeeded", "Raised", "Exhausted"}) =>
          (/\ sleptBefore = 2..page_requests
           /\ Cardinality(sleptBefore) = page_requests - 1
           /\ attempt_number = page_requests
           /\ delay = 0)
    /\ (rstate = "Waiting") =>
          (/\ page_requests >= 1
           /\ Len(outcomes) = page_requests
           /\ sleptBefore = 2..page_requests
           /\ attempt_number = page_requests + 1
           /\ attempt_number <= 5)

C12_Witness ==
    /\ rstate = "Raised"
    /\ page_requests = 3
    /\ sleptBefore = {2, 3}
    /\ raised = OtherError

\* requests handed to the transport and not yet answered
C13_InFlight ==
    page_requests - Len(outcomes) - (IF rstate = "Succeeded" THEN 1 ELSE 0)

C13_State ==
    /\ C13_InFlight \in {0, 1}
    /\ (C13_InFlight = 1) <=> (rstate = "Attempting")
    /\ Len(calls) - Len(pages) \in {0, 1}
    /\ (Len(calls) >= 1) => (calls[1] = None)
    /\ \A k \in 2..Len(calls) :
          /\ pages[k - 1].nextPageToken \in Tokens
          /\ calls[k] = pages[k - 1].nextPageToken

C13_Step ==
    (calls' # calls /\ invocations' = invocations) =>
        (/\ rstate = "Idle"
         /\ C13_InFlight = 0
         /\ Len(pages) = Len(calls)
         /\ Len(calls') = Len(calls) + 1
         /\ all_policies = ConcatItems(pages))

\* C13: within one invocation at most one transport request is in flight;
\* the fetch of page k+1 starts only when the fetch of page k, retries and
\* waits included, has returned a response and the loop body has taken it in,
\* and it carries that response's token: no page is requested ahead or out of
\* cursor order.
C13_Sequential ==
    /\ []C13_State
    /\ [][C13_Step]_vars

C13_Witness ==
    /\ Len(calls) = 2
    /\ Len(pages) = 1
    /\ rstate = "Attempting"
    /\ page_requests = 2
    /\ request.pageToken = "Y"

C14_State ==
    /\ (pc = "loop" /\ calls = <<>>) =>
          (all_policies = <<>> /\ next_page_token = None)
    /\ (Len(calls) = 1 /\ pc = "call") =>
          (request = [parent |-> <<"organizations/", org_id>>, pageToken |-> None])
    /\ returned.has => (returned.value = ConcatItems(pages))

C14_Step ==
    (invocations' # invocations) =>
        (/\ all_policies' = <<>>
         /\ next_page_token' = None
         /\ returned' = NoReturn
         /\ raised' = NoExc)

\* C14: every invocation starts with an empty accumulator and no token of
\* its own: also after an invocation that returned or aborted, the first
\* request of the next one carries no token and its result holds this
\* invocation's pages only.
C14_FreshInvocation ==
    /\ []C14_State
    /\ [][C14_Step]_vars

C14_Witness ==
    /\ invocations = 2
    /\ prior = "raised_holding_items"
    /\ pc = "returned"
    /\ calls = <<None>>
    /\ returned = [has |-> TRUE, value |-> <<"b", "a">>]

C15_State ==
    /\ (rstate # "Idle") => (page_requests <= 5 /\ Len(outcomes) <= 5)
    /\ (rstate = "Exhausted") => (page_requests = 5 /\ Len(outcomes) = 5)
    /\ (rstate = "Waiting") => (Len(outcomes) < 5)

C15_Step ==
    (calls' # calls /\ invocations' = invocations) =>
        (/\ attempt_number' = 1
         /\ page_requests' = 1
         /\ outcomes' = <<>>
         /\ sleptBefore' = {})

\* C15: the retry budget belongs to the page fetch: every page fetch starts
\* at attempt 1 with no failure counted, whatever earlier pages of the
\* invocation spent, and gives up only after 5 requests of its own.
C15_BudgetPerPage ==
    /\ []C15_State
    /\ [][C15_Step]_vars

C15_Witness ==
    /\ Len(calls) = 2
    /\ rstate = "Attempting"
    /\ attempt_number = 1
    /\ page_requests = 1
    /\ retried
    /\ any_failed

C16_State ==
    (pc = "call") =>
        (/\ next_page_token = calls[Len(calls)]
         /\ request = [parent |-> <<"organizations/", org_id>>,
                       pageToken |-> calls[Len(calls)]])

C16_Step ==
    /\ (pc = "call" /\ pc' = "call") =>
          (request' = request /\ next_page_token' = next_page_token)
    /\ (next_page_token' # next_page_token /\ invocations' = invocations) =>
          (rstate = "Succeeded" /\ next_page_token' = response.nextPageToken)
    /\ (invocations' = invocations) => (org_id' = org_id)
    /\ (invocations' = invocations /\ request # NoRequest) =>
          (request'.parent = request.parent)

\* C16: every attempt of a page fetch sends the scope and the token of its
\* first attempt; the loop's token changes only when a successful response is
\* taken in, never on a failed attempt or a wait; the scope is the same in
\* every request of an invocation.
C16_SameRequest ==
    /\ []C16_State
    /\ [][C16_Step]_vars

C16_Witness ==
    /\ pc = "call"
    /\ rstate = "Attempting"
    /\ Len(calls) = 2
    /\ page_requests = 3
    /\ request = [parent |-> <<"organizations/", "42">>, pageToken |-> "X"]

C17_Step ==
    (pc = "call" /\ rstate = "Succeeded" /\ ~response.has_policies) =>
        (/\ all_policies' = all_policies
         /\ raised' = NoExc
         /\ next_page_token' = response.nextPageToken
         /\ (response.nextPageToken \in Tokens) => (pc' = "loop")
         /\ (response.nextPageToken \notin Tokens) =>
               (pc' = "returned" /\ returned' = [has |-> TRUE, value |-> all_policies]))

\* C17: a successful response without the 'policies' key is a page of zero
\* items: no error is raised, the accumulator stays as it is, and the loop
\* goes on or returns by that response's nextPageToken alone.
C17_MissingField ==
    /\ [](rstate = "Succeeded" => raised = NoExc)
    /\ [][C17_Step]_vars

C17_Witness ==
    /\ pc = "returned"
    /\ Len(pages) = 2
    /\ ~pages[1].has_policies
    /\ pages[1].nextPageToken = "X"
    /\ returned = [has |-> TRUE, value |-> <<"a", "b">>]

C18_State ==
    /\ \A i \in 1..Len(outcomes) :
          (outcomes[i].cls # "HttpError") =>
              (/\ i = Len(outcomes)
               /\ page_requests = i
               /\ rstate = "Raised"
               /\ delay = 0
               /\ raised = outcomes[i])
    /\ (Len(outcomes) >= 1 /\ outcomes[1].cls # "HttpError") =>
          (attempt_number = 1 /\ page_requests = 1 /\ sleptBefore = {})

C18_Step ==
    /\ (rstate = "Raised") => (pc' = "raised" /\ raised' = raised)
    /\ (pc = "raised" /\ invocations' = invocations) => (raised' = raised)

\* C18: a failure of the transport that is not an HttpError is never
\* retried: the attempt that met it is the last (the only one when it is the
\* first), no sleep follows, and the same exception leaves
\* call_search_all_iam_policies and fetch_all_iam_policies.
C18_OtherFailureNotRetried ==
    /\ []C18_State
    /\ [][C18_Step]_vars

C18_Witness ==
    /\ pc = "raised"
    /\ raised = OtherError
    /\ Len(calls) = 1
    /\ ~retried

====
